---- MODULE Spec2Model ----
(***************************************************************************)
(* Model of the TellDB transaction coordinator (src/src/Transaction.cpp)   *)
(* and of the index registry (src/src/Indexes.cpp).                        *)
(*                                                                         *)
(* Spec     : one Transaction object: staging, commit, rollback, the       *)
(*            destructor, with the storage tier answering every request    *)
(*            with success or failure.                                     *)
(* SpecIdx  : the Indexes registry: openIndexes / createIndexes called by  *)
(*            several fibers of one client, suspended where a lookup       *)
(*            response is awaited.                                         *)
(*                                                                         *)
(* 64-bit unsigned values are four 16-bit limbs, most significant first,   *)
(* so that the shifts of writeUndoLog lose the bits a uint64_t loses.      *)
(* LOG_ASSERT(cond, ...) is a macro defined outside the repository: in one *)
(* build it evaluates cond and terminates the process when it is false, in *)
(* the other it expands to nothing and cond is never evaluated.            *)
(***************************************************************************)
EXTENDS Integers, Sequences, FiniteSets, TLC

\* ---------------------------------------------------------------- bounds
MaxRows  == 2      \* row keys a transaction may stage
MaxCalls == 2      \* explicit commit()/rollback() calls on one object
MaxTables == 1     \* tables known to the client
MaxFibers == 2     \* transactions of one client that open indexes
MaxIdxCalls == 2   \* openIndexes/createIndexes calls in one run
MaxStaged == 2     \* insert/update/remove calls on one IndexWrapper
MaxStrLen == 2
MaxKeySteps == 3

\* ------------------------------------------------------ program constants
ChunkSize == 1024  \* size_t(1024) in writeUndoLog
Word == 65536      \* 2^16: one 16-bit limb, the unit of "<< 16" and ">> 16"

\* --------------------------------------------------------- 64-bit helpers

RECURSIVE BitOr(_, _)
BitOr(a, b) ==
    IF a = 0 THEN b
    ELSE IF b = 0 THEN a
    ELSE (IF a % 2 = 1 \/ b % 2 = 1 THEN 1 ELSE 0) + 2 * BitOr(a \div 2, b \div 2)

\* uint64_t(n) for a model integer n
ToU64(n) == <<0, 0, (n \div Word) % Word, n % Word>>

\* k << 16 on uint64_t: the top limb is lost
Shl16(k) == <<k[2], k[3], k[4], 0>>

\* k >> 16 on uint64_t
Shr16(k) == <<0, k[1], k[2], k[3]>>

\* a | b on uint64_t
Or64(a, b) == [i \in 1..4 |-> BitOr(a[i], b[i])]

\* uint64_t key = mSnapshot->version() << 16;
InitialKey(version) == Shl16(version)

\* mutant: the low 16 bits of the previous key are not cleared
ChunkKeyNoClear(key, chunkNum) == Or64(key, ToU64(chunkNum))

\* key = ((key >> 16) << 16) | chunkNum;
ChunkKey(key, chunkNum) == Or64(Shl16(Shr16(key)), ToU64(chunkNum))

Min(a, b) == IF a < b THEN a ELSE b

\* auto toWrite = std::min(log.first - sizeWritten, size_t(1024));
ToWrite(total, sizeWritten) == Min(total - sizeWritten, ChunkSize)

\* crossbow::string(reinterpret_cast<char*>(log.second), toWrite):
\* log.second is never advanced, the copy always starts at the first byte
ChunkValue(bytes, sizeWritten, toWrite) == SubSeq(bytes, 1, toWrite)

\* ------------------------------------------------- write buffer (mCache)
Rows == 1..MaxRows

\* serialized size of staged row k in the undo log: the first row is a
\* short or a chunk-sized record, the later rows fill two chunks each
RecSizes(k) == IF k = 1 THEN {452, 1024} ELSE {2048}

\* the undo-log record of row k: sz bytes that depend on k and the position
Record(k, sz) == [j \in 1..sz |-> (k * 16 + j) % 256]

RECURSIVE SerializeFrom(_, _)
SerializeFrom(cache, k) ==
    IF k > MaxRows THEN <<>>
    ELSE (IF cache[k] > 0 THEN Record(k, cache[k]) ELSE <<>>)
         \o SerializeFrom(cache, k + 1)

\* mCache->undoLog(withIndexes): the deltas of the staged rows in key order
undoLog(cache) == SerializeFrom(cache, 1)

\* mCache->hasChanges()
hasChanges(cache) == \E k \in Rows : cache[k] > 0

StagedRows(cache) == {k \in Rows : cache[k] > 0}

\* void writeBack(bool withIndexes = true)
withIndexes == TRUE

\* ------------------------------------------------------------- variables
VARIABLES
    build,        \* how LOG_ASSERT expands in this build: assert or release
    mType,        \* store::TransactionType of the transaction
    mSnapshot,    \* mSnapshot->version(), a uint64_t
    mCommitted,   \* bool mCommitted
    mCache,       \* write buffer: row key -> serialized size, 0 = not staged
    pc,           \* position of the one thread of control
    op,           \* the call in progress: none, commit, rollback
    inDtor,       \* the rollback in progress was started by ~Transaction
    calls,        \* number of commit()/rollback()/destructor calls so far
    called,       \* the last operation called: commit, rollback, dtor
    result,       \* outcome of the last finished call
    txState,      \* Active / Committed / RolledBack: who set mCommitted
    log,          \* the undo log handed to writeUndoLog
    key,          \* local key of writeUndoLog
    sizeWritten,  \* local sizeWritten of writeUndoLog
    chunkNum,     \* loop counter of writeUndoLog
    responses,    \* requests issued by writeUndoLog, in order of issue
    waitIdx,      \* next response writeUndoLog waits on
    written,      \* rows whose forward write reached the storage tier
    trace,        \* requests and acknowledgments seen by the storage tier
    \* ---- index registry
    mIndexes,     \* Indexes::mIndexes: table id -> index name -> IndexTables
    regions,      \* storage tier: the index regions (tables) that exist
    nextAlloc,    \* next address handed out by new IndexTables
    fiber,        \* per fiber: the openIndexes call in progress, its locals
    lookups,      \* per table: number of getTable requests issued
    idxCalls,     \* number of openIndexes/createIndexes calls so far
    returned,     \* per fiber: the outcome of its last finished call
    \* ---- one IndexWrapper (Overlay) of one transaction
    mFields,      \* IndexWrapper::mFields: the schema ids of the indexed fields
    mBdTree,      \* the persisted index: entries in ascending key order
    iwCache,      \* IndexWrapper::mCache: the staged entries, in key order
    staged,       \* number of insert/update/remove calls so far
    lastCall,     \* the last call on the IndexWrapper and the cache before it
    iter,         \* the Iterator lower_bound handed out last, and its prefix
    \* ---- the Field archive policies
    field,        \* the Field handed to size and serialize
    buf,          \* the bytes serialize wrote
    decoded,      \* the Field deserialize produced
    consumed,     \* the number of bytes deserialize consumed
    codecPc,      \* start, encoded, decoded
    \* ---- Transaction::insert from a name-to-value map
    schema,       \* the fields of the table's schema, fixed-size ones first
    values,       \* the map handed to insert: field name -> Field
    insTuple,     \* the local Tuple being filled
    insI,         \* the loop counter i
    insStatus,    \* running, FieldNotSet, WrongFieldType, inserted
    insCache,     \* write buffer: the tuples handed to mCache->insert
    \* ---- undo-log keys of several transactions
    writer,       \* the writeUndoLog loop in progress: version, key, chunkNum
    keyLog        \* the (version, chunk number, key) of every chunk written

txVars  == <<build, mType, mSnapshot, mCommitted, mCache, pc, op, inDtor, calls,
             called, result, txState, log, key, sizeWritten, chunkNum, responses,
             waitIdx, written, trace>>
idxVars == <<mIndexes, regions, nextAlloc, fiber, lookups, idxCalls, returned>>
ovlVars == <<mFields, mBdTree, iwCache, staged, lastCall, iter>>
codecVars == <<field, buf, decoded, consumed, codecPc>>
insVars == <<schema, values, insTuple, insI, insStatus, insCache>>
keyVars == <<writer, keyLog>>
vars    == <<txVars, idxVars, ovlVars, codecVars, insVars, keyVars>>
nonTxVars  == <<idxVars, ovlVars, codecVars, insVars, keyVars>>
nonIdxVars == <<txVars, ovlVars, codecVars, insVars, keyVars>>
nonOvlVars == <<txVars, idxVars, codecVars, insVars, keyVars>>
nonCodecVars == <<txVars, idxVars, ovlVars, insVars, keyVars>>
nonInsVars == <<txVars, idxVars, ovlVars, codecVars, keyVars>>
nonKeyVars == <<txVars, idxVars, ovlVars, codecVars, insVars>>

\* ------------------------------------------------------------ trace
Ev(c, o, e, a) == [call |-> c, op |-> o, ev |-> e, arg |-> a]

RECURSIVE EventsFor(_, _, _, _, _)
\* one event e per row of S, in ascending key order, starting at row k
EventsFor(S, k, c, o, e) ==
    IF k > MaxRows THEN <<>>
    ELSE (IF k \in S THEN <<Ev(c, o, e, k)>> ELSE <<>>)
         \o EventsFor(S, k + 1, c, o, e)

\* snapshot versions: a small one, and one whose top 16 bits are set
Versions == {<<0, 0, 0, 5>>, <<1, 2, 0, 7>>}

TxTypes == {"READ_WRITE", "READ_ONLY"}

\* the two expansions of LOG_ASSERT(cond, ...)
Builds == {"assert", "release"}

\* ------------------------------------------------------------- Init
\* the value of Transaction::mCommitted in a new object.  The constructor
\* (Transaction.cpp:60-68) does not assign the member; its declaration, with
\* its initialiser, is in telldb/Transaction.hpp.  A transaction is created
\* Active, so the member starts false.
mCommittedInitial == FALSE

\* Transaction::Transaction: nothing staged, no call made yet
InitTx ==
    /\ mCommitted = mCommittedInitial
    /\ mCache = [k \in Rows |-> 0]
    /\ pc = "idle"
    /\ op = "none"
    /\ inDtor = FALSE
    /\ calls = 0
    /\ called = "none"
    /\ result = "none"
    /\ txState = "Active"
    /\ log = <<>>
    /\ key = <<0, 0, 0, 0>>
    /\ sizeWritten = 0
    /\ chunkNum = 0
    /\ responses = <<>>
    /\ waitIdx = 0
    /\ written = {}
    /\ trace = <<>>

\* ------------------------------------------------- index registry: data
Tables == 1..MaxTables
Fibers == 1..MaxFibers

\* table.record().schema().indexes(): the first table declares two indexes,
\* every other table one; an index is named by the pair <<t, i>>
NumIndexes(t) == IF t = 1 THEN 2 ELSE 1
IndexName(t, i) == <<t, i>>
IndexFields(t, i) == <<i>>

\* "__index_nodes_" + idx.first, "__index_ptrs_" + idx.first
nodeTableName(name) == <<"__index_nodes_", name>>
ptrTableName(name) == <<"__index_ptrs_", name>>

AllRegions ==
    UNION {{nodeTableName(IndexName(t, i)) : i \in 1..NumIndexes(t)} \cup
           {ptrTableName(IndexName(t, i)) : i \in 1..NumIndexes(t)} : t \in Tables}

IdleFiber == [pc |-> "idle", table |-> 0, txId |-> 0, responses |-> <<>>,
              it |-> 0, indexMap |-> <<>>, res |-> <<>>, failed |-> FALSE]

NoResult == [seq |-> 0, op |-> "none", table |-> 0, status |-> "none",
             res |-> <<>>, cacheHit |-> FALSE, failed |-> FALSE,
             emplaced |-> FALSE]

\* Indexes::Indexes(handle): an empty registry; the storage tier may hold
\* index regions created by an earlier client process
InitIdx ==
    /\ mIndexes = <<>>
    /\ nextAlloc = 1
    /\ fiber = [f \in Fibers |-> IdleFiber]
    /\ lookups = [t \in Tables |-> 0]
    /\ idxCalls = 0
    /\ returned = [f \in Fibers |-> NoResult]

\* ------------------------------------------------- index overlay: data
\* row keys, and the tuples of a table with two columns (ids 1 and 2); a
\* Field is represented by its value, and Fields compare as their values
RowKeys == {1, 2}
Tuples == {<<1, 1>>, <<2, 1>>, <<2, 2>>}
NoTuple == <<>>

\* the index definitions: over no column, over column 1, over columns 2, 1
IndexDefs == {<<>>, <<1>>, <<2, 1>>}

\* std::numeric_limits<uint64_t>::max()
MaxU64 == <<Word - 1, Word - 1, Word - 1, Word - 1>>

\* KeyType{fields, version, disambiguator}
KeyType(fields, version, dis) ==
    [fields |-> fields, version |-> version, dis |-> dis]

RECURSIVE SeqLess(_, _, _)
\* a < b from position i on, lexicographically (a proper prefix is less)
SeqLess(a, b, i) ==
    IF i > Len(b) THEN FALSE
    ELSE IF i > Len(a) THEN TRUE
    ELSE IF a[i] < b[i] THEN TRUE
    ELSE IF b[i] < a[i] THEN FALSE
    ELSE SeqLess(a, b, i + 1)

\* the order of composite index keys: field list, version, disambiguator
KeyLess(a, b) ==
    IF a.fields # b.fields THEN SeqLess(a.fields, b.fields, 1)
    ELSE IF a.version # b.version THEN SeqLess(a.version, b.version, 1)
    ELSE a.dis < b.dis

\* bdtree::null_key<KeyType>::value()
null_key == KeyType(<<>>, MaxU64, 0)

\* position of the first entry of the sorted sequence s not less than k
LowerBoundPos(s, k) ==
    LET S == {i \in 1..Len(s) : ~KeyLess(s[i].key, k)}
    IN IF S = {} THEN Len(s) + 1 ELSE CHOOSE i \in S : \A j \in S : i <= j

\* position of the first entry of the sorted sequence s greater than k
UpperBoundPos(s, k) ==
    LET S == {i \in 1..Len(s) : KeyLess(k, s[i].key)}
    IN IF S = {} THEN Len(s) + 1 ELSE CHOOSE i \in S : \A j \in S : i <= j

InsertAt(s, i, e) == SubSeq(s, 1, i - 1) \o <<e>> \o SubSeq(s, i, Len(s))

\* mCache.emplace(key, (op, row)): the staged cache keeps entries of equal
\* key, the new one after those it already holds
CacheEmplace(cache, e) == InsertAt(cache, UpperBoundPos(cache, e.key), e)

\* the version under which the index entry of a committed row was written
CommitVersion(r) ==
    IF r = 1 THEN <<0, 0, 0, 5>> ELSE <<Word - 1, Word - 1, Word - 1, Word - 2>>

NoCall == [op |-> "none", row |-> 0, old |-> NoTuple, next |-> NoTuple,
           emplaced |-> <<>>, before |-> <<>>]
NoIter == [open |-> FALSE, prefix |-> <<>>, idxIter |-> 1, idxEnd |-> 1,
           cacheIter |-> 1, cacheEnd |-> 1]

\* no IndexWrapper is open
InitOvl ==
    /\ mFields = <<>>
    /\ mBdTree = <<>>
    /\ iwCache = <<>>
    /\ staged = 0
    /\ lastCall = NoCall
    /\ iter = NoIter

\* no Field is being archived
InitCodec ==
    /\ field = <<>>
    /\ buf = <<>>
    /\ decoded = <<>>
    /\ consumed = 0
    /\ codecPc = "none"

\* no insert from a map is in progress
InitIns ==
    /\ schema = <<>>
    /\ values = <<>>
    /\ insTuple = <<>>
    /\ insI = 0
    /\ insStatus = "none"
    /\ insCache = <<>>

\* no undo log is being written
NoWriter == [active |-> FALSE, version |-> <<0, 0, 0, 0>>,
             key |-> <<0, 0, 0, 0>>, chunkNum |-> 0, left |-> 0]
InitKeys ==
    /\ writer = NoWriter
    /\ keyLog = {}

\* Transaction::Transaction(handle, context, snapshot, type)
Init ==
    /\ build \in Builds
    /\ mType \in TxTypes
    /\ mSnapshot \in Versions
    /\ InitTx
    /\ InitIdx
    /\ regions = {}
    /\ InitOvl
    /\ InitCodec
    /\ InitIns
    /\ InitKeys

\* --------------------------------------------------- staging operations
\* the write buffer after a mutation of row k whose undo-log record has sz
\* bytes was staged: one mutation per row key, the later call replaces the
\* earlier one
Stage(cache, k, sz) == [cache EXCEPT ![k] = sz]

\* Transaction::insert(table, key, tuple): mCache->insert(table, key, tuple)
insert(k, sz) ==
    /\ pc = "idle"
    /\ mCache' = Stage(mCache, k, sz)
    /\ UNCHANGED <<build, mType, mSnapshot, mCommitted, pc, op, inDtor, calls, result,
                   txState, log, key, sizeWritten, chunkNum, responses,
                   waitIdx, written, trace>>
    /\ UNCHANGED <<called, nonTxVars>>

\* Transaction::update(table, key, from, to): mCache->update(...)
update(k, sz) ==
    /\ pc = "idle"
    /\ mCache' = Stage(mCache, k, sz)
    /\ UNCHANGED <<build, mType, mSnapshot, mCommitted, pc, op, inDtor, calls,
                   result, txState, log, key, sizeWritten, chunkNum, responses,
                   waitIdx, written, trace>>
    /\ UNCHANGED <<called, nonTxVars>>

\* Transaction::remove(table, key, tuple): mCache->remove(...)
remove(k, sz) ==
    /\ pc = "idle"
    /\ mCache' = Stage(mCache, k, sz)
    /\ UNCHANGED <<build, mType, mSnapshot, mCommitted, pc, op, inDtor, calls,
                   result, txState, log, key, sizeWritten, chunkNum, responses,
                   waitIdx, written, trace>>
    /\ UNCHANGED <<called, nonTxVars>>

\* ------------------------------------------------------------- commit
\* mutant: the test for changes is missing
writeBackCheckNoChangesTest(committed, changes, type) ==
    IF committed THEN "already_committed"
    ELSE IF type = "READ_ONLY" THEN "read_only"
    ELSE "proceed"

\* the three early exits of Transaction::writeBack, in the order of the code
writeBackCheck(committed, changes, type) ==
    IF committed THEN "already_committed"
    ELSE IF ~changes THEN "no_changes"
    ELSE IF type # "READ_WRITE" THEN "read_only"
    ELSE "proceed"

\* the statement order of Transaction::writeBack and Transaction::commit:
\* writeUndoLog; mCache->writeBack(); mCache->writeIndexes(); mHandle.commit
writeBackNext(phase) ==
    CASE phase = "undo" -> "rowIssue"
      [] phase = "rows" -> IF withIndexes THEN "idxIssue" ELSE "snapCommit"
      [] phase = "idx"  -> "snapCommit"

\* whether LOG_ASSERT(cond, ...) evaluates cond in build b
LogAssertEvaluates(b) == b = "assert"

\* LOG_ASSERT(resp->waitForResult(), ...) in build b: TRUE = execution
\* continues
LogAssert(b, cond) == IF LogAssertEvaluates(b) THEN cond ELSE TRUE

\* Transaction::commit() up to the end of the early exits of writeBack()
CommitBegin ==
    /\ pc = "idle"
    /\ calls < MaxCalls
    /\ calls' = calls + 1
    /\ called' = "commit"
    /\ LET chk == writeBackCheck(mCommitted, hasChanges(mCache), mType) IN
       CASE chk \in {"already_committed", "read_only"} ->
              /\ result' = "logic_error"
              /\ UNCHANGED <<pc, op, log, key, sizeWritten, chunkNum, responses>>
         [] chk = "no_changes" ->
              /\ pc' = "snapCommit"
              /\ op' = "commit"
              /\ UNCHANGED <<result, log, key, sizeWritten, chunkNum, responses>>
         [] chk = "proceed" ->
              /\ pc' = "undoIssue"
              /\ op' = "commit"
              /\ log' = undoLog(mCache)
              /\ key' = InitialKey(mSnapshot)
              /\ sizeWritten' = 0
              /\ chunkNum' = 0
              /\ responses' = <<>>
              /\ UNCHANGED result
    /\ UNCHANGED <<build, mType, mSnapshot, mCommitted, mCache, inDtor, txState,
                   waitIdx, written, trace>>
    /\ UNCHANGED nonTxVars

\* one iteration of the for loop of writeUndoLog (log.first > 1024)
WriteUndoLogChunk ==
    /\ pc = "undoIssue"
    /\ Len(log) > ChunkSize
    /\ sizeWritten < Len(log)
    /\ LET k       == ChunkKey(key, chunkNum)
           toWrite == ToWrite(Len(log), sizeWritten)
           resp    == [key |-> k, n |-> chunkNum,
                       value |-> ChunkValue(log, sizeWritten, toWrite)]
       IN /\ key' = k
          /\ responses' = Append(responses, resp)
          /\ sizeWritten' = sizeWritten + toWrite
          /\ chunkNum' = chunkNum + 1
          /\ trace' = Append(trace, Ev(calls, op, "undoReq", chunkNum))
          /\ IF sizeWritten + toWrite < Len(log)
             THEN UNCHANGED <<pc, waitIdx>>
             ELSE /\ pc' = "undoWait"
                  /\ waitIdx' = Len(responses) + 1
    /\ UNCHANGED <<build, mType, mSnapshot, mCommitted, mCache, op, inDtor, calls,
                   result, txState, log, written>>
    /\ UNCHANGED <<called, nonTxVars>>

\* the else branch of writeUndoLog: the whole log under the initial key
WriteUndoLogSingle ==
    /\ pc = "undoIssue"
    /\ Len(log) <= ChunkSize
    /\ responses' = <<[key |-> key, n |-> 0, value |-> SubSeq(log, 1, Len(log))]>>
    /\ trace' = Append(trace, Ev(calls, op, "undoReq", 0))
    /\ pc' = "undoWait"
    /\ waitIdx' = 1
    /\ UNCHANGED <<build, mType, mSnapshot, mCommitted, mCache, op, inDtor, calls,
                   result, txState, log, key, sizeWritten, chunkNum, written>>
    /\ UNCHANGED <<called, nonTxVars>>

\* LOG_ASSERT(resp->waitForResult(), ...) on responses.rbegin() .. rend():
\* one response is waited on; where the macro expands to nothing no
\* response is waited on and writeUndoLog returns
WriteUndoLogWait ==
    /\ pc = "undoWait"
    /\ IF LogAssertEvaluates(build)
       THEN \E ok \in BOOLEAN :
         /\ trace' = Append(trace, Ev(calls, op, IF ok THEN "undoAck" ELSE "undoFail",
                                      responses[waitIdx].n))
         /\ IF ~LogAssert(build, ok)
            THEN /\ pc' = "terminated"
                 /\ UNCHANGED <<waitIdx, log, responses>>
            ELSE IF waitIdx > 1
            THEN /\ waitIdx' = waitIdx - 1
                 /\ UNCHANGED <<pc, log, responses>>
            ELSE \* writeUndoLog returns: its locals are gone
                 /\ pc' = writeBackNext("undo")
                 /\ log' = <<>>
                 /\ responses' = <<>>
                 /\ UNCHANGED waitIdx
       ELSE /\ pc' = writeBackNext("undo")
            /\ log' = <<>>
            /\ responses' = <<>>
            /\ UNCHANGED <<waitIdx, trace>>
    /\ UNCHANGED <<build, mType, mSnapshot, mCommitted, mCache, op, inDtor, calls,
                   result, txState, key, sizeWritten, chunkNum, written>>
    /\ UNCHANGED <<called, nonTxVars>>

\* the exception leaves commit(): mCommitted is not touched
CommitThrows(res) ==
    /\ result' = res
    /\ pc' = "idle"
    /\ op' = "none"

\* mCache->writeBack(): one write request per staged row
WriteBackRowsIssue ==
    /\ pc = "rowIssue"
    /\ trace' = trace \o EventsFor(StagedRows(mCache), 1, calls, op, "rowReq")
    /\ pc' = "rowWait"
    /\ UNCHANGED <<build, mType, mSnapshot, mCommitted, mCache, op, inDtor, calls,
                   result, txState, log, key, sizeWritten, chunkNum, responses,
                   waitIdx, written>>
    /\ UNCHANGED <<called, nonTxVars>>

\* mCache->writeBack(): the responses; the storage tier may report a
\* conflict on one row c, the writes of the other rows are applied
WriteBackRowsWait ==
    /\ pc = "rowWait"
    /\ \/ /\ written' = written \cup StagedRows(mCache)
          /\ trace' = trace \o EventsFor(StagedRows(mCache), 1, calls, op, "rowAck")
          /\ pc' = writeBackNext("rows")
          /\ UNCHANGED <<op, result>>
       \/ \E c \in StagedRows(mCache) :
          /\ written' = written \cup (StagedRows(mCache) \ {c})
          /\ trace' = Append(trace, Ev(calls, op, "rowConflict", c))
          /\ CommitThrows("conflict")
    /\ UNCHANGED <<build, mType, mSnapshot, mCommitted, mCache, inDtor, calls,
                   txState, log, key, sizeWritten, chunkNum, responses, waitIdx>>
    /\ UNCHANGED <<called, nonTxVars>>

\* mCache->writeIndexes(): one request per staged index mutation
WriteIndexesIssue ==
    /\ pc = "idxIssue"
    /\ trace' = trace \o EventsFor(StagedRows(mCache), 1, calls, op, "idxReq")
    /\ pc' = "idxWait"
    /\ UNCHANGED <<build, mType, mSnapshot, mCommitted, mCache, op, inDtor, calls,
                   result, txState, log, key, sizeWritten, chunkNum, responses,
                   waitIdx, written>>
    /\ UNCHANGED <<called, nonTxVars>>

\* mCache->writeIndexes(): the responses
WriteIndexesWait ==
    /\ pc = "idxWait"
    /\ \/ /\ trace' = trace \o EventsFor(StagedRows(mCache), 1, calls, op, "idxAck")
          /\ pc' = writeBackNext("idx")
          /\ UNCHANGED <<op, result>>
       \/ /\ trace' = Append(trace, Ev(calls, op, "idxFail", 0))
          /\ CommitThrows("conflict")
    /\ UNCHANGED <<build, mType, mSnapshot, mCommitted, mCache, inDtor, calls,
                   txState, log, key, sizeWritten, chunkNum, responses, waitIdx,
                   written>>
    /\ UNCHANGED <<called, nonTxVars>>

\* mHandle.commit(*mSnapshot); mCommitted = true;   (Transaction::commit)
\* or mHandle.commit throws and the exception leaves commit()
CommitSnapshot ==
    /\ pc = "snapCommit"
    /\ \/ /\ trace' = Append(trace, Ev(calls, op, "snapCommit", 0))
          /\ mCommitted' = TRUE
          /\ txState' = "Committed"
          /\ result' = "ok"
          /\ pc' = "idle"
          /\ op' = "none"
       \/ /\ trace' = Append(trace, Ev(calls, op, "snapCommitFail", 0))
          /\ CommitThrows("conflict")
          /\ UNCHANGED <<mCommitted, txState>>
    /\ UNCHANGED <<build, mType, mSnapshot, mCache, inDtor, calls, log, key,
                   sizeWritten, chunkNum, responses, waitIdx, written>>
    /\ UNCHANGED <<called, nonTxVars>>

\* ------------------------------------------------------------ rollback
\* mutant: rollback does not test mCommitted
rollbackCheckMissing(committed) == "proceed"

\* if (mCommitted) throw std::logic_error("Transaction has already committed")
rollbackCheck(committed) == IF committed THEN "already_committed" ELSE "proceed"

\* Transaction::rollback() up to the call of mCache->rollback()
RollbackBegin ==
    /\ pc = "idle"
    /\ calls < MaxCalls
    /\ calls' = calls + 1
    /\ called' = "rollback"
    /\ IF rollbackCheck(mCommitted) = "already_committed"
       THEN /\ result' = "logic_error"
            /\ UNCHANGED <<pc, op>>
       ELSE /\ pc' = "revertIssue"
            /\ op' = "rollback"
            /\ UNCHANGED result
    /\ UNCHANGED <<build, mType, mSnapshot, mCommitted, mCache, inDtor, txState, log,
                   key, sizeWritten, chunkNum, responses, waitIdx, written, trace>>
    /\ UNCHANGED nonTxVars

\* mCache->rollback(): one compensating write per logged row
RevertIssue ==
    /\ pc = "revertIssue"
    /\ trace' = trace \o EventsFor(StagedRows(mCache), 1, calls, op, "revertReq")
    /\ pc' = "revertWait"
    /\ UNCHANGED <<build, mType, mSnapshot, mCommitted, mCache, op, inDtor, calls,
                   result, txState, log, key, sizeWritten, chunkNum, responses,
                   waitIdx, written>>
    /\ UNCHANGED <<called, nonTxVars>>

\* mCache->rollback(): every compensation is waited on
RevertWait ==
    /\ pc = "revertWait"
    /\ trace' = trace \o EventsFor(StagedRows(mCache), 1, calls, op, "revertAck")
    /\ written' = {}
    /\ pc' = "rollbackCommit"
    /\ UNCHANGED <<build, mType, mSnapshot, mCommitted, mCache, op, inDtor, calls,
                   result, txState, log, key, sizeWritten, chunkNum, responses,
                   waitIdx>>
    /\ UNCHANGED <<called, nonTxVars>>

\* mHandle.commit(*mSnapshot); mCommitted = true;   (Transaction::rollback)
\* or mHandle.commit throws: the exception leaves rollback(), and ends the
\* process when it leaves the destructor
RollbackCommit ==
    /\ pc = "rollbackCommit"
    /\ \/ /\ trace' = Append(trace, Ev(calls, op, "snapCommit", 0))
          /\ mCommitted' = TRUE
          /\ txState' = "RolledBack"
          /\ result' = "ok"
          /\ pc' = IF inDtor THEN "destroyed" ELSE "idle"
       \/ /\ trace' = Append(trace, Ev(calls, op, "snapCommitFail", 0))
          /\ result' = "conflict"
          /\ pc' = IF inDtor THEN "terminated" ELSE "idle"
          /\ UNCHANGED <<mCommitted, txState>>
    /\ op' = "none"
    /\ UNCHANGED <<build, mType, mSnapshot, mCache, inDtor, calls, log, key,
                   sizeWritten, chunkNum, responses, waitIdx, written>>
    /\ UNCHANGED <<called, nonTxVars>>

\* ---------------------------------------------------------- destructor
\* mutant: the test of the destructor is inverted
dtorRollsBackInverted(committed) == committed

\* if (!mCommitted) { rollback(); }
dtorRollsBack(committed) == ~committed

\* Transaction::~Transaction(); an exception leaving it ends the process
Destroy ==
    /\ pc = "idle"
    /\ calls' = calls + 1
    /\ inDtor' = TRUE
    /\ called' = "dtor"
    /\ IF ~dtorRollsBack(mCommitted)
       THEN /\ pc' = "destroyed"
            /\ UNCHANGED <<op, result>>
       ELSE IF rollbackCheck(mCommitted) = "already_committed"
       THEN /\ pc' = "terminated"
            /\ result' = "logic_error"
            /\ UNCHANGED op
       ELSE /\ pc' = "revertIssue"
            /\ op' = "rollback"
            /\ UNCHANGED result
    /\ UNCHANGED <<build, mType, mSnapshot, mCommitted, mCache, txState, log, key,
                   sizeWritten, chunkNum, responses, waitIdx, written, trace>>
    /\ UNCHANGED nonTxVars

\* ------------------------------------------------------------- Next
Next ==
    \/ \E k \in Rows : \E sz \in RecSizes(k) : insert(k, sz)
    \/ \E k \in Rows : \E sz \in RecSizes(k) : update(k, sz)
    \/ \E k \in Rows : \E sz \in RecSizes(k) : remove(k, sz)
    \/ CommitBegin
    \/ WriteUndoLogChunk
    \/ WriteUndoLogSingle
    \/ WriteUndoLogWait
    \/ WriteBackRowsIssue
    \/ WriteBackRowsWait
    \/ WriteIndexesIssue
    \/ WriteIndexesWait
    \/ CommitSnapshot
    \/ RollbackBegin
    \/ RevertIssue
    \/ RevertWait
    \/ RollbackCommit
    \/ Destroy

Spec == Init /\ [][Next]_vars

\* ======================================================= commit protocol
TraceIdx == 1..Len(trace)

\* the phase of a storage event of commit()
Rank(e) ==
    CASE e.ev \in {"undoReq", "undoAck", "undoFail"}    -> 1
      [] e.ev \in {"rowReq", "rowAck", "rowConflict"}    -> 2
      [] e.ev \in {"idxReq", "idxAck", "idxFail"}        -> 3
      [] e.ev \in {"snapCommit", "snapCommitFail"}       -> 4
      [] OTHER                                           -> 0

IsCommitEv(i) == trace[i].op = "commit"

\* every request `req` of the call of event j issued before j has its
\* acknowledgment `ack` before j, and there is at least one
PhaseDoneBefore(j, req, ack) ==
    /\ \E i \in 1..(j - 1) : trace[i].call = trace[j].call /\ trace[i].ev = req
    /\ \A i \in TraceIdx :
         (trace[i].call = trace[j].call /\ trace[i].ev = req) =>
            /\ i < j
            /\ \E a \in (i + 1)..(j - 1) :
                 /\ trace[a].call = trace[j].call
                 /\ trace[a].ev = ack
                 /\ trace[a].arg = trace[i].arg

\* the commit call of event j wrote back changes (it did more than send
\* the snapshot commit)
CallHadChanges(j) ==
    \E i \in TraceIdx : trace[i].call = trace[j].call /\ Rank(trace[i]) \in 1..3

\* C1 (as claimed): in a commit with a non-empty write buffer the undo log
\* is written, then the rows, then the indexes, then the snapshot commit is
\* sent; no request of a phase is issued before the previous phase has
\* finished, and the transaction is marked committed only after the
\* snapshot commit.
Cex_C1_PhaseOrder ==
    /\ \A i, j \in TraceIdx :
         (i < j /\ IsCommitEv(i) /\ IsCommitEv(j) /\ trace[i].call = trace[j].call)
            => Rank(trace[i]) <= Rank(trace[j])
    /\ \A j \in TraceIdx :
         /\ trace[j].ev = "rowReq" => PhaseDoneBefore(j, "undoReq", "undoAck")
         /\ trace[j].ev = "idxReq" => PhaseDoneBefore(j, "rowReq", "rowAck")
         /\ (IsCommitEv(j) /\ Rank(trace[j]) = 4 /\ CallHadChanges(j))
               => PhaseDoneBefore(j, "idxReq", "idxAck")
    /\ (pc = "snapCommit" /\ op = "commit" /\ hasChanges(mCache)) =>
         \A k \in StagedRows(mCache) :
            /\ \E i \in TraceIdx : trace[i] = Ev(calls, "commit", "rowAck", k)
            /\ \E i \in TraceIdx : trace[i] = Ev(calls, "commit", "idxAck", k)
    /\ op = "commit" => ~mCommitted
    /\ txState = "Committed" =>
         \E i \in TraceIdx : IsCommitEv(i) /\ trace[i].ev = "snapCommit"

\* C2 (as claimed): with a chunked undo log every chunk write is issued
\* before any response is waited on; row writeback is issued only after
\* every chunk write was acknowledged, and not at all when one was not.
Cex_C2_UndoBeforeRows ==
    \A j \in TraceIdx :
      /\ trace[j].ev = "undoReq" =>
           ~\E i \in 1..(j - 1) :
               /\ trace[i].call = trace[j].call
               /\ trace[i].ev \in {"undoAck", "undoFail"}
      /\ trace[j].ev = "rowReq" =>
           /\ \A i \in TraceIdx :
                (trace[i].call = trace[j].call /\ trace[i].ev = "undoReq") =>
                   \E a \in (i + 1)..(j - 1) :
                      trace[a] = Ev(trace[j].call, "commit", "undoAck", trace[i].arg)
           /\ ~\E i \in TraceIdx :
                 trace[i].call = trace[j].call /\ trace[i].ev = "undoFail"

\* ========================================================= undo-log chunks
RECURSIVE ConcatValues(_, _)
\* the values of resp[i..], concatenated in chunk-number order
ConcatValues(resp, i) ==
    IF i > Len(resp) THEN <<>> ELSE resp[i].value \o ConcatValues(resp, i + 1)

RECURSIVE SumSizes(_, _)
SumSizes(resp, i) ==
    IF i > Len(resp) THEN 0 ELSE Len(resp[i].value) + SumSizes(resp, i + 1)

\* writeUndoLog has issued every request of the current log
UndoLogIssued == pc = "undoWait"

\* C3 (as claimed): the stored values, in chunk-number order, concatenate to
\* the undo log; chunk n holds the bytes [1024 n, min(1024 (n+1), L)).
Cex_C3_ChunksConcatToLog ==
    UndoLogIssued => ConcatValues(responses, 1) = log

\* C4: a log of L bytes is stored as ceil(L / 1024) records, each of at most
\* 1024 bytes, all but the last of exactly 1024 bytes, the sizes summing to
\* L, chunk n under the key (version << 16) | n for n = 0, 1, 2, ...
Thm_C4_ChunkLayout ==
    UndoLogIssued =>
       /\ Len(responses) = (Len(log) + ChunkSize - 1) \div ChunkSize
       /\ \A i \in 1..Len(responses) :
            /\ Len(responses[i].value) <= ChunkSize
            /\ i < Len(responses) => Len(responses[i].value) = ChunkSize
            /\ responses[i].n = i - 1
            /\ responses[i].key =
                 <<mSnapshot[2], mSnapshot[3], mSnapshot[4], i - 1>>
       /\ SumSizes(responses, 1) = Len(log)

\* the log of 2500 bytes is stored as 1024, 1024 and 452 bytes
Wit_C4_Log2500 ==
    /\ UndoLogIssued
    /\ Len(log) = 2500
    /\ Len(responses) = 3
    /\ Len(responses[1].value) = 1024
    /\ Len(responses[2].value) = 1024
    /\ Len(responses[3].value) = 452

\* ==================================================== misuse and failures
\* C5 (as claimed): commit on a read-only transaction always fails with a
\* logic error and never brings the transaction to Committed, whether or
\* not the write buffer holds changes.
Cex_C5_ReadOnlyNeverCommitted ==
    mType = "READ_ONLY" => txState # "Committed"

\* C6: on a transaction in a terminal state every commit or rollback call
\* reports a logic error, issues no request and leaves the state unchanged.
Thm_C6_TerminalRejects ==
    [][(mCommitted /\ calls' = calls + 1 /\ called' \in {"commit", "rollback"})
         => /\ result' = "logic_error"
            /\ trace' = trace
            /\ written' = written
            /\ txState' = txState
            /\ mCommitted'
            /\ pc' = "idle"]_vars

\* a call on a terminal transaction was rejected
Wit_C6_RejectedAfterTerminal ==
    /\ mCommitted
    /\ result = "logic_error"
    /\ called = "rollback"
    /\ txState = "Committed"
    /\ pc = "idle"

\* C7 (as claimed): when commit returns a conflict the transaction is
\* already RolledBack and the compensations of its row writes are complete.
Cex_C7_ConflictRollsBack ==
    (called = "commit" /\ result = "conflict" /\ pc = "idle") =>
       /\ txState = "RolledBack"
       /\ \A k \in StagedRows(mCache) :
            \E i \in TraceIdx : trace[i].ev = "revertAck" /\ trace[i].arg = k

\* the events of the destructor's own call
DtorEvents == {i \in TraceIdx : trace[i].call = calls}

\* C8: the destructor runs rollback exactly once on an Active transaction
\* and not at all on a terminal one; a destroyed transaction is never left
\* Active and is never both committed and rolled back.
Thm_C8_DestructorRollsBack ==
    /\ [][(~inDtor /\ inDtor') =>
            IF mCommitted
            THEN pc' = "destroyed" /\ trace' = trace /\ txState' = txState
            ELSE pc' = "revertIssue" /\ op' = "rollback"]_vars
    /\ [](pc = "destroyed" =>
            /\ mCommitted
            /\ txState \in {"Committed", "RolledBack"}
            /\ Cardinality({i \in DtorEvents : trace[i].ev = "snapCommit"})
                 = IF \E i \in DtorEvents : TRUE THEN 1 ELSE 0
            /\ Cardinality({i \in TraceIdx : trace[i].ev = "snapCommit"}) = 1
            /\ txState = "Committed" =>
                 ~\E i \in TraceIdx :
                     trace[i].op = "rollback" /\ trace[i].ev = "snapCommit")

\* an Active transaction with staged rows was destroyed and rolled back
Wit_C8_DestroyedWhileActive ==
    /\ pc = "destroyed"
    /\ txState = "RolledBack"
    /\ \E i \in DtorEvents : trace[i].ev = "revertAck"

\* ========================================================= index registry
\* new IndexTables{fields, TableData(ptr table), TableData(node table)}
\* at address addr; a table obtained from a failed lookup is "invalid"
IndexTables(addr, name, fields, ptrOk, nodeOk) ==
    [addr      |-> addr,
     fields    |-> fields,
     ptrTable  |-> IF ptrOk THEN ptrTableName(name) ELSE <<"invalid">>,
     nodeTable |-> IF nodeOk THEN nodeTableName(name) ELSE <<"invalid">>]

\* IndexWrapper(fields, BdTreeBackend(handle, ptrTable, nodeTable),
\*              mBdTreeCache, txId, init): bound to the tables of one
\* IndexTables object
IndexWrapper(tables, txId, init) ==
    [fields |-> tables.fields, tables |-> tables.addr,
     ptrTable |-> tables.ptrTable, nodeTable |-> tables.nodeTable,
     txId |-> txId, init |-> init]

\* mutant: the entry of the table is overwritten
EmplaceOverwrite(map, t, indexMap) ==
    [u \in DOMAIN map \cup {t} |-> IF u = t THEN indexMap ELSE map[u]]

\* mIndexes.emplace(table_t{table.tableId()}, indexMap): std::unordered_map
\* keeps the entry the key already has
Emplace(map, t, indexMap) ==
    IF t \in DOMAIN map THEN map
    ELSE [u \in DOMAIN map \cup {t} |-> IF u = t THEN indexMap ELSE map[u]]

\* m.emplace(k, v) on a local map that does not hold k
Put(m, k, v) == [x \in DOMAIN m \cup {k} |-> IF x = k THEN v ELSE m[x]]

\* the second error test of openIndexes: const auto& ec =
\* std::get<2>(*it)->error(), the node-region response once more
ptrErrorChecked(r) == ~r.node

Result(seq, o, t, status, res, hit, failed, emplaced) ==
    [seq |-> seq, op |-> o, table |-> t, status |-> status, res |-> res,
     cacheHit |-> hit, failed |-> failed, emplaced |-> emplaced]

\* Indexes::openIndexes up to the first response it waits on: the cache
\* hit, or the getTable requests of every declared index
openIndexes(f, t) ==
    /\ fiber[f].pc = "idle"
    /\ idxCalls < MaxIdxCalls
    /\ idxCalls' = idxCalls + 1
    /\ IF t \in DOMAIN mIndexes
       THEN /\ returned' = [returned EXCEPT ![f] =
                 Result(idxCalls + 1, "open", t, "ok",
                        [n \in DOMAIN mIndexes[t] |->
                            IndexWrapper(mIndexes[t][n], f, FALSE)],
                        TRUE, FALSE, FALSE)]
            /\ UNCHANGED <<fiber, lookups>>
       ELSE /\ LET resp == [i \in 1..NumIndexes(t) |->
                              [name   |-> IndexName(t, i),
                               fields |-> IndexFields(t, i),
                               node   |-> nodeTableName(IndexName(t, i)) \in regions,
                               ptr    |-> ptrTableName(IndexName(t, i)) \in regions]]
               IN fiber' = [fiber EXCEPT ![f] =
                     [pc |-> "awaitNode", table |-> t, txId |-> f,
                      responses |-> resp, it |-> Len(resp),
                      indexMap |-> <<>>, res |-> <<>>,
                      failed |-> \E i \in 1..Len(resp) :
                                    ~resp[i].node \/ ~resp[i].ptr]]
            /\ lookups' = [lookups EXCEPT ![t] = @ + 2 * NumIndexes(t)]
            /\ UNCHANGED returned
    /\ UNCHANGED <<mIndexes, regions, nextAlloc>>
    /\ UNCHANGED nonIdxVars

\* the call of fiber f ends with an exception
OpenThrows(f, status) ==
    /\ returned' = [returned EXCEPT ![f] =
          Result(idxCalls, "open", fiber[f].table, status, <<>>, FALSE,
                 fiber[f].failed, FALSE)]
    /\ fiber' = [fiber EXCEPT ![f] = IdleFiber]
    /\ UNCHANGED <<mIndexes, nextAlloc>>

\* the iteration goes on: IndexTables and IndexWrapper of *it are built;
\* after the last one the map is registered and res returned
OpenContinues(f, ptrOk) ==
    LET me     == fiber[f]
        r      == me.responses[me.it]
        tables == IndexTables(nextAlloc, r.name, r.fields, ptrOk, TRUE)
        map2   == Put(me.indexMap, r.name, tables)
        res2   == Put(me.res, r.name, IndexWrapper(tables, me.txId, FALSE))
    IN /\ nextAlloc' = nextAlloc + 1
       /\ IF me.it > 1
          THEN /\ fiber' = [fiber EXCEPT ![f].pc = "awaitNode",
                                         ![f].it = me.it - 1,
                                         ![f].indexMap = map2,
                                         ![f].res = res2]
               /\ UNCHANGED <<mIndexes, returned>>
          ELSE /\ mIndexes' = Emplace(mIndexes, me.table, map2)
               /\ returned' = [returned EXCEPT ![f] =
                     Result(idxCalls, "open", me.table, "ok", res2, FALSE,
                            me.failed, me.table \notin DOMAIN mIndexes)]
               /\ fiber' = [fiber EXCEPT ![f] = IdleFiber]

\* the second loop of openIndexes, resumed when the node-region response
\* of *it has arrived: std::get<2>(*it)->error() is tested, twice; with no
\* error the fiber goes on to wait for the pointer-region response
openIndexesAwaitNode(f) ==
    /\ fiber[f].pc = "awaitNode"
    /\ LET r == fiber[f].responses[fiber[f].it] IN
       IF ~r.node \/ ptrErrorChecked(r)
       THEN OpenThrows(f, "OpenTableException")
       ELSE /\ fiber' = [fiber EXCEPT ![f].pc = "awaitPtr"]
            /\ UNCHANGED <<mIndexes, nextAlloc, returned>>
    /\ UNCHANGED <<regions, lookups, idxCalls>>
    /\ UNCHANGED nonIdxVars

\* the same iteration, resumed when the pointer-region response of *it has
\* arrived: std::get<3>(*it)->get().  get() on a failed response either
\* throws the error of the response or hands out an unusable table; then
\* IndexTables is allocated and the loop goes to the next response
openIndexesAwaitPtr(f) ==
    /\ fiber[f].pc = "awaitPtr"
    /\ LET r == fiber[f].responses[fiber[f].it] IN
       IF r.ptr
       THEN OpenContinues(f, TRUE)
       ELSE \/ OpenThrows(f, "system_error")
            \/ OpenContinues(f, FALSE)
    /\ UNCHANGED <<regions, lookups, idxCalls>>
    /\ UNCHANGED nonIdxVars

\* BdTreePointerTable::createTable / BdTreeNodeTable::createTable(handle,
\* name): the request reaches the storage tier, which then holds the region
createTable(rs, name) == rs \cup {name}

\* Indexes::createIndexes up to the first response it waits on: the
\* createTable of the pointer region of the first declared index
createIndexes(f, t) ==
    /\ fiber[f].pc = "idle"
    /\ idxCalls < MaxIdxCalls
    /\ idxCalls' = idxCalls + 1
    /\ regions' = createTable(regions, ptrTableName(IndexName(t, 1)))
    /\ fiber' = [fiber EXCEPT ![f] =
          [pc |-> "createPtr", table |-> t, txId |-> f, responses |-> <<>>,
           it |-> 1, indexMap |-> <<>>, res |-> <<>>, failed |-> FALSE]]
    /\ UNCHANGED <<mIndexes, nextAlloc, lookups, returned>>
    /\ UNCHANGED nonIdxVars

\* createIndexes resumed when the region it waits for was created: the node
\* region of the same index is requested; or IndexTables and IndexWrapper
\* of the index are built and the pointer region of the next index is
\* requested, after the last index the map is registered and res returned
createIndexesAwait(f) ==
    /\ fiber[f].pc \in {"createPtr", "createNode"}
    /\ LET me   == fiber[f]
           name == IndexName(me.table, me.it)
       IN IF me.pc = "createPtr"
          THEN /\ regions' = createTable(regions, nodeTableName(name))
               /\ fiber' = [fiber EXCEPT ![f].pc = "createNode"]
               /\ UNCHANGED <<mIndexes, nextAlloc, returned>>
          ELSE LET tables == IndexTables(nextAlloc, name,
                                         IndexFields(me.table, me.it), TRUE, TRUE)
                   map2   == Put(me.indexMap, name, tables)
                   res2   == Put(me.res, name, IndexWrapper(tables, me.txId, TRUE))
               IN /\ nextAlloc' = nextAlloc + 1
                  /\ IF me.it < NumIndexes(me.table)
                     THEN /\ regions' = createTable(regions,
                                 ptrTableName(IndexName(me.table, me.it + 1)))
                          /\ fiber' = [fiber EXCEPT ![f].pc = "createPtr",
                                                    ![f].it = me.it + 1,
                                                    ![f].indexMap = map2,
                                                    ![f].res = res2]
                          /\ UNCHANGED <<mIndexes, returned>>
                     ELSE /\ mIndexes' = Emplace(mIndexes, me.table, map2)
                          /\ returned' = [returned EXCEPT ![f] =
                                Result(idxCalls, "create", me.table, "ok", res2,
                                       FALSE, FALSE,
                                       me.table \notin DOMAIN mIndexes)]
                          /\ fiber' = [fiber EXCEPT ![f] = IdleFiber]
                          /\ UNCHANGED regions
    /\ UNCHANGED <<lookups, idxCalls>>
    /\ UNCHANGED nonIdxVars

\* the storage tier at the start: empty, or holding the index regions an
\* earlier client process created, of which at most one is lost
InitRegistry ==
    /\ mType = "READ_WRITE"
    /\ mSnapshot = <<0, 0, 0, 5>>
    /\ build = "assert"
    /\ InitTx
    /\ InitIdx
    /\ InitOvl
    /\ InitCodec
    /\ InitIns
    /\ InitKeys
    /\ \/ regions = {}
       \/ \E M \in SUBSET AllRegions :
            Cardinality(M) <= 1 /\ regions = AllRegions \ M

NextIdx ==
    \/ \E f \in Fibers, t \in Tables : openIndexes(f, t)
    \/ \E f \in Fibers : openIndexesAwaitNode(f)
    \/ \E f \in Fibers : openIndexesAwaitPtr(f)
    \/ \E f \in Fibers, t \in Tables : createIndexes(f, t)
    \/ \E f \in Fibers : createIndexesAwait(f)

SpecIdx == InitRegistry /\ [][NextIdx]_vars

\* C9 (as claimed): an openIndexes call one of whose lookups failed, the
\* node-region or the pointer-region lookup of any declared index, ends in
\* OpenTableException, registers nothing and returns no Overlay.
Cex_C9_AnyLookupFailureThrows ==
    \A f \in Fibers :
       (returned[f].op = "open" /\ returned[f].failed) =>
          /\ returned[f].status = "OpenTableException"
          /\ ~returned[f].emplaced
          /\ returned[f].res = <<>>

\* the open of table t by fiber f that starts in this step finds t cached
CachedOpen(f, t) ==
    /\ t \in DOMAIN mIndexes
    /\ idxCalls' = idxCalls + 1
    /\ returned'[f].seq = idxCalls'
    /\ returned'[f].op = "open"
    /\ returned'[f].table = t

\* C10: once a table is registered, every later openIndexes of it issues no
\* lookup and returns one Overlay per cached index, bound to the cached
\* metadata, and no later call replaces or removes the registry entry.
Thm_C10_CacheHitAndImmutable ==
    /\ [][\A t \in DOMAIN mIndexes :
             t \in DOMAIN mIndexes' /\ mIndexes'[t] = mIndexes[t]]_vars
    /\ [][\A t \in DOMAIN mIndexes :
             /\ lookups'[t] = lookups[t]
             /\ \A f \in Fibers :
                  (fiber[f].pc = "idle" /\ fiber'[f].pc = "awaitNode")
                     => fiber'[f].table # t]_vars
    /\ [][\A f \in Fibers, t \in Tables :
             CachedOpen(f, t) =>
                /\ returned'[f].status = "ok"
                /\ DOMAIN returned'[f].res = DOMAIN mIndexes[t]
                /\ \A n \in DOMAIN mIndexes[t] :
                     /\ returned'[f].res[n].tables = mIndexes[t][n].addr
                     /\ returned'[f].res[n].fields = mIndexes[t][n].fields
                     /\ returned'[f].res[n].ptrTable = mIndexes[t][n].ptrTable
                     /\ returned'[f].res[n].nodeTable = mIndexes[t][n].nodeTable]_vars

\* the two-index table was opened from the cache after it was registered
Wit_C10_OpenedFromCache ==
    \E f \in Fibers :
       /\ returned[f].cacheHit
       /\ returned[f].table = 1
       /\ Cardinality(DOMAIN returned[f].res) = 2
       /\ 1 \in DOMAIN mIndexes

\* C11 (as claimed): two openIndexes calls that both missed the cache for the
\* same table and both returned Overlays are bound to one set of index
\* metadata, the registered one; no second set was allocated for the table.
Cex_C11_DiscoverersShareMetadata ==
    \A f \in Fibers, g \in Fibers :
       (/\ f # g
        /\ returned[f].op = "open" /\ returned[g].op = "open"
        /\ returned[f].status = "ok" /\ returned[g].status = "ok"
        /\ ~returned[f].cacheHit /\ ~returned[g].cacheHit
        /\ returned[f].table = returned[g].table) =>
          LET t == returned[f].table IN
          /\ t \in DOMAIN mIndexes
          /\ \A n \in DOMAIN mIndexes[t] :
               /\ returned[f].res[n].tables = mIndexes[t][n].addr
               /\ returned[g].res[n].tables = mIndexes[t][n].addr

\* =========================================================== index overlay
\* IndexWrapper::keyOf(tuple): the Fields of the indexed columns, in order
keyOf(fields, tuple) == [i \in 1..Len(fields) |-> tuple[fields[i]]]

\* a staged entry: key -> (IndexOperation, row key)
StagedEntry(k, o, row) == [key |-> k, op |-> o, row |-> row]

\* IndexWrapper::insert(k, tuple): the entries it emplaces
InsertEntries(fields, k, tuple) ==
    <<StagedEntry(KeyType(keyOf(fields, tuple), MaxU64, 0), "Insert", k)>>

\* mutant: the keys are not compared
UpdateEntriesAlways(fields, k, old, next) ==
    <<StagedEntry(KeyType(keyOf(fields, old), MaxU64, 0), "Delete", k),
      StagedEntry(KeyType(keyOf(fields, next), MaxU64, 0), "Insert", k)>>

\* IndexWrapper::update(key, old, next): the entries it emplaces
UpdateEntries(fields, k, old, next) ==
    LET oldKey == keyOf(fields, old)
        newKey == keyOf(fields, next)
    IN IF oldKey # newKey
       THEN <<StagedEntry(KeyType(keyOf(fields, old), MaxU64, 0), "Delete", k),
              StagedEntry(KeyType(keyOf(fields, next), MaxU64, 0), "Insert", k)>>
       ELSE <<>>

\* mutant: the Delete is keyed with version marker 0
RemoveEntriesVersionZero(fields, k, tuple) ==
    <<StagedEntry(KeyType(keyOf(fields, tuple), ToU64(0), 0), "Delete", k)>>

\* IndexWrapper::remove(key, tuple): the entries it emplaces
RemoveEntries(fields, k, tuple) ==
    <<StagedEntry(KeyType(keyOf(fields, tuple), MaxU64, 0), "Delete", k)>>

RECURSIVE EmplaceAll(_, _)
\* the emplace calls of one operation, in order
EmplaceAll(cache, es) ==
    IF es = <<>> THEN cache
    ELSE EmplaceAll(CacheEmplace(cache, Head(es)), Tail(es))

\* an Iterator keeps pointing at its entry of mCache when another entry is
\* emplaced: the positions behind the new entry move on by one
IterAfterEmplace(it, cache, e) ==
    IF ~it.open THEN it
    ELSE [it EXCEPT !.cacheIter = IF UpperBoundPos(cache, e.key) <= @
                                  THEN @ + 1 ELSE @,
                    !.cacheEnd = @ + 1]

RECURSIVE IterAfterAll(_, _, _)
\* the Iterator after the emplace calls of one operation
IterAfterAll(it, cache, es) ==
    IF es = <<>> THEN it
    ELSE IterAfterAll(IterAfterEmplace(it, cache, Head(es)),
                      CacheEmplace(cache, Head(es)), Tail(es))

\* one staging call on the IndexWrapper: the entries es are emplaced
StageCall(o, k, old, next, es) ==
    /\ staged < MaxStaged
    /\ staged' = staged + 1
    /\ iwCache' = EmplaceAll(iwCache, es)
    /\ iter' = IterAfterAll(iter, iwCache, es)
    /\ lastCall' = [op |-> o, row |-> k, old |-> old, next |-> next,
                    emplaced |-> es, before |-> iwCache]
    /\ UNCHANGED <<mFields, mBdTree>>
    /\ UNCHANGED nonOvlVars

\* IndexWrapper::insert(k, tuple)
iwInsert(k, t) ==
    StageCall("insert", k, NoTuple, t, InsertEntries(mFields, k, t))

\* IndexWrapper::update(key, old, next)
iwUpdate(k, old, next) ==
    StageCall("update", k, old, next, UpdateEntries(mFields, k, old, next))

\* IndexWrapper::remove(key, tuple)
iwRemove(k, t) ==
    StageCall("remove", k, t, NoTuple, RemoveEntries(mFields, k, t))

\* mBdTree.find(k): a cursor at the first persisted entry not less than k
bdFind(tree, k) == LowerBoundPos(tree, k)

\* IndexWrapper::lower_bound(key): KeyType k{key, 0ul, 0u};
\* Iterator(mBdTree.find(k), mBdTree.end(), mCache.lower_bound(k), mCache.end())
lower_bound(tree, cache, prefix) ==
    LET k == KeyType(prefix, ToU64(0), 0)
    IN [open |-> TRUE, prefix |-> prefix,
        idxIter |-> bdFind(tree, k), idxEnd |-> Len(tree) + 1,
        cacheIter |-> LowerBoundPos(cache, k), cacheEnd |-> Len(cache) + 1]

\* IndexWrapper::Iterator::done(); the other members of the Iterator (its
\* advance, the entry it stands on) are declared outside Indexes.cpp and
\* are not part of this model
done(it) == it.cacheIter = it.cacheEnd /\ it.idxIter = it.idxEnd

\* the key prefixes looked up: every prefix of the key of a tuple
Prefixes(fields) ==
    {SubSeq(keyOf(fields, t), 1, n) : t \in Tuples, n \in 0..Len(fields)}

\* IndexWrapper::lower_bound(key), called with the prefix
iwLowerBound(prefix) ==
    /\ iter' = lower_bound(mBdTree, iwCache, prefix)
    /\ lastCall' = [op |-> "lower_bound", row |-> 0, old |-> NoTuple,
                    next |-> NoTuple, emplaced |-> <<>>, before |-> iwCache]
    /\ UNCHANGED <<mFields, mBdTree, iwCache, staged>>
    /\ UNCHANGED nonOvlVars

\* the index entry of a committed row
PersistedEntry(fields, r, t) ==
    [key |-> KeyType(keyOf(fields, t), CommitVersion(r), 0), row |-> r]

RECURSIVE Persist(_, _, _)
\* the persisted index of the committed rows R, in ascending key order
Persist(fields, committed, R) ==
    IF R = {} THEN <<>>
    ELSE LET r    == CHOOSE x \in R : \A y \in R : x <= y
             rest == Persist(fields, committed, R \ {r})
         IN IF committed[r] = NoTuple THEN rest
            ELSE LET e == PersistedEntry(fields, r, committed[r])
                 IN InsertAt(rest, LowerBoundPos(rest, e.key), e)

\* the committed rows of the table at the start: none, or every row, under
\* one tuple or under different ones
CommittedRows ==
    {[r \in RowKeys |-> NoTuple],
     [r \in RowKeys |-> <<2, 1>>],
     [r \in RowKeys |-> IF r = 1 THEN <<2, 2>> ELSE <<1, 1>>]}

\* an IndexWrapper opened on an index of a table some of whose rows are
\* committed
InitOverlay ==
    /\ mType = "READ_WRITE"
    /\ mSnapshot = <<0, 0, 0, 5>>
    /\ build = "assert"
    /\ InitTx
    /\ InitIdx
    /\ regions = {}
    /\ mFields \in IndexDefs
    /\ \E committed \in CommittedRows :
          mBdTree = Persist(mFields, committed, RowKeys)
    /\ iwCache = <<>>
    /\ staged = 0
    /\ lastCall = NoCall
    /\ iter = NoIter
    /\ InitCodec
    /\ InitIns
    /\ InitKeys

NextOvl ==
    \/ \E k \in RowKeys, t \in Tuples : iwInsert(k, t)
    \/ \E k \in RowKeys, old \in Tuples, next \in Tuples : iwUpdate(k, old, next)
    \/ \E k \in RowKeys, t \in Tuples : iwRemove(k, t)
    \/ \E prefix \in Prefixes(mFields) : iwLowerBound(prefix)

SpecOvl == InitOverlay /\ [][NextOvl]_vars

\* number of entries of the staged cache equal to e
Count(cache, e) == Cardinality({i \in 1..Len(cache) : cache[i] = e})

\* the Delete of the old key and the Insert of the new key of the last call
LastDelete ==
    StagedEntry(KeyType(keyOf(mFields, lastCall.old), MaxU64, 0), "Delete",
                lastCall.row)
LastInsert ==
    StagedEntry(KeyType(keyOf(mFields, lastCall.next), MaxU64, 0), "Insert",
                lastCall.row)

Thm_C19_StagedSortLast ==
    /\ \A i \in 1..Len(lastCall.emplaced) :
          /\ lastCall.emplaced[i].key.version = MaxU64
          /\ lastCall.emplaced[i].key.dis = 0
    /\ \A i \in 1..Len(iwCache) :
          /\ iwCache[i].key.version = MaxU64
          /\ iwCache[i].key.dis = 0
          /\ \A j \in 1..Len(mBdTree) :
               mBdTree[j].key.fields = iwCache[i].key.fields =>
                  ~KeyLess(iwCache[i].key, mBdTree[j].key)
          /\ lower_bound(mBdTree, iwCache, iwCache[i].key.fields).cacheIter <= i
          /\ (lastCall.op = "lower_bound"
                 /\ iwCache[i].key.fields = iter.prefix) => iter.cacheIter <= i
    /\ lastCall.op = "lower_bound" =>
          /\ iter = lower_bound(mBdTree, iwCache, iter.prefix)
          /\ \A i \in 1..(iter.cacheIter - 1) :
               KeyLess(iwCache[i].key, KeyType(iter.prefix, ToU64(0), 0))

\* a staged Insert and staged Deletes from an update and a remove, one of
\* them under the field combination of a persisted entry written with the
\* largest version below the maximal marker; lower_bound on those fields
\* has just returned a staged cursor that passed over a smaller staged entry
Wit_C19_StagedOverPersisted ==
    /\ \E i \in 1..Len(iwCache), j \in 1..Len(mBdTree) :
          /\ iwCache[i].key.fields = mBdTree[j].key.fields
          /\ iwCache[i].key.fields = iter.prefix
          /\ mBdTree[j].key.version = CommitVersion(2)
          /\ KeyLess(mBdTree[j].key, iwCache[i].key)
    /\ \E i \in 1..Len(iwCache) : iwCache[i].op = "Insert"
    /\ \E i \in 1..Len(iwCache) : iwCache[i].op = "Delete"
    /\ lastCall.op = "lower_bound"
    /\ iter.cacheIter > 1
    /\ iter.cacheIter # iter.cacheEnd
    /\ Len(iwCache) >= 3

\* C20 (as claimed): no staged key equals the reserved sentinel key
\* (empty field list, maximal version marker, disambiguator 0), for any row
\* and any index definition.
Cex_C20_NoStagedSentinel ==
    \A i \in 1..Len(iwCache) : iwCache[i].key # null_key

\* ===================================================== Field archive policies
\* tell::store::FieldType, in the order of the switch statements; the tag
\* the archive writes for a type is its position, in one byte
FieldTypes == <<"NOTYPE", "NULLTYPE", "SMALLINT", "INT", "BIGINT", "FLOAT",
                "DOUBLE", "TEXT", "BLOB">>
Tag(type) == (CHOOSE i \in 1..Len(FieldTypes) : FieldTypes[i] = type) - 1
TypeOfTag(b) == FieldTypes[b + 1]

Field(type, value) == [type |-> type, value |-> value]

\* a default-constructed Field, and Field::createNull()
DefaultField == Field("NOTYPE", <<>>)
createNull == Field("NULLTYPE", <<>>)

\* Field::create(value): the type follows from the C++ type of the argument
create(ctype, value) ==
    Field(CASE ctype = "int16_t" -> "SMALLINT"
            [] ctype = "int32_t" -> "INT"
            [] ctype = "int64_t" -> "BIGINT"
            [] ctype = "float" -> "FLOAT"
            [] ctype = "double" -> "DOUBLE"
            [] ctype = "crossbow::string" -> "TEXT", value)

\* the bytes of a signed integer of w bytes (w <= 4), least significant
\* byte first, two's complement
IntBytes(v, w) == [i \in 1..w |-> (v \div (256 ^ (i - 1))) % 256]

\* the signed integer stored in the bytes b
BytesInt(b) ==
    LET w   == Len(b)
        top == IF b[w] >= 128 THEN b[w] - 256 ELSE b[w]
        low == [i \in 1..(w - 1) |-> b[i] * (256 ^ (i - 1))]
        Sum[i \in 0..(w - 1)] == IF i = 0 THEN 0 ELSE Sum[i - 1] + low[i]
    IN top * (256 ^ (w - 1)) + Sum[w - 1]

\* the unsigned integer stored in the bytes b (below 2^31)
BytesUInt(b) ==
    LET Sum[i \in 0..Len(b)] ==
            IF i = 0 THEN 0 ELSE Sum[i - 1] + b[i] * (256 ^ (i - 1))
    IN Sum[Len(b)]

\* the bytes of a value kept as 16-bit limbs, most significant limb first
\* (an int64_t, or the bit pattern of a float or a double)
LimbBytes(l) ==
    [i \in 1..(2 * Len(l)) |->
        LET limb == l[Len(l) - ((i - 1) \div 2)]
        IN IF i % 2 = 1 THEN limb % 256 ELSE limb \div 256]

BytesLimbs(b) ==
    [i \in 1..(Len(b) \div 2) |->
        LET k == Len(b) \div 2 - i
        IN b[2 * k + 1] + 256 * b[2 * k + 2]]

\* serialize_policy<Archiver, crossbow::string>: uint32_t size, then data
serializeString(str) == IntBytes(Len(str), 4) \o str

\* deserialize_policy<Archiver, crossbow::string>
deserializeString(bytes, pos) ==
    LET n == BytesUInt(SubSeq(bytes, pos, pos + 3))
    IN [value |-> SubSeq(bytes, pos + 4, pos + 3 + n), pos |-> pos + 4 + n]

\* size_policy<Archiver, Field>
size(f) ==
    LET res == 1
    IN CASE f.type = "NOTYPE" -> res
         [] f.type = "NULLTYPE" -> res
         [] f.type = "SMALLINT" -> res + 2
         [] f.type = "INT" -> res + 4
         [] f.type = "BIGINT" -> res + 8
         [] f.type = "FLOAT" -> res + 4
         [] f.type = "DOUBLE" -> res + 8
         [] f.type \in {"TEXT", "BLOB"} -> res + 4 + Len(f.value)

\* serialize_policy<Archiver, Field>: ar & field.type(), then the payload
serialize(f) ==
    <<Tag(f.type)>> \o
    CASE f.type \in {"NOTYPE", "NULLTYPE"} -> <<>>
      [] f.type = "SMALLINT" -> IntBytes(f.value, 2)
      [] f.type = "INT" -> IntBytes(f.value, 4)
      [] f.type \in {"BIGINT", "FLOAT", "DOUBLE"} -> LimbBytes(f.value)
      [] f.type \in {"TEXT", "BLOB"} -> serializeString(f.value)

\* deserialize_policy<Archiver, Field>: the tag is read, then the payload;
\* field is the caller's Field, pos the number of bytes consumed
deserialize(bytes, prior) ==
    LET type == TypeOfTag(bytes[1])
        str  == deserializeString(bytes, 2)
    IN CASE type = "NOTYPE" -> [field |-> prior, pos |-> 1]
         [] type = "NULLTYPE" -> [field |-> createNull, pos |-> 1]
         [] type = "SMALLINT" ->
              [field |-> create("int16_t", BytesInt(SubSeq(bytes, 2, 3))),
               pos |-> 3]
         [] type = "INT" ->
              [field |-> create("int32_t", BytesInt(SubSeq(bytes, 2, 5))),
               pos |-> 5]
         [] type = "BIGINT" ->
              [field |-> create("int64_t", BytesLimbs(SubSeq(bytes, 2, 9))),
               pos |-> 9]
         [] type = "FLOAT" ->
              [field |-> create("float", BytesLimbs(SubSeq(bytes, 2, 5))),
               pos |-> 5]
         [] type = "DOUBLE" ->
              [field |-> create("double", BytesLimbs(SubSeq(bytes, 2, 9))),
               pos |-> 9]
         [] type \in {"TEXT", "BLOB"} ->
              [field |-> create("crossbow::string", str.value),
               pos |-> str.pos - 1]

\* the Fields archived
ByteVals == {0, 65, 255}
Strings == UNION {[1..n -> ByteVals] : n \in 0..MaxStrLen}
Fields ==
    {DefaultField, createNull}
    \cup {Field("SMALLINT", v) : v \in {-32768, -1, 0, 258, 32767}}
    \cup {Field("INT", v) : v \in {-2147483647 - 1, -1, 0, 65541, 2147483647}}
    \cup {Field("BIGINT", v) : v \in {<<0, 0, 0, 0>>, <<32768, 0, 1, 2>>,
                                      <<65535, 65535, 65535, 65535>>}}
    \cup {Field("FLOAT", v) : v \in {<<0, 0>>, <<16256, 0>>, <<49152, 1>>}}
    \cup {Field("DOUBLE", v) : v \in {<<0, 0, 0, 0>>, <<16368, 0, 0, 0>>,
                                      <<49152, 0, 0, 513>>}}
    \cup {Field("TEXT", v) : v \in Strings}
    \cup {Field("BLOB", v) : v \in Strings}

InitArchive ==
    /\ mType = "READ_WRITE"
    /\ mSnapshot = <<0, 0, 0, 5>>
    /\ build = "assert"
    /\ InitTx
    /\ InitIdx
    /\ regions = {}
    /\ InitOvl
    /\ InitIns
    /\ InitKeys
    /\ field \in Fields
    /\ buf = <<>>
    /\ decoded = DefaultField
    /\ consumed = 0
    /\ codecPc = "start"

\* ar & field on a writing archive
Serialize ==
    /\ codecPc = "start"
    /\ buf' = serialize(field)
    /\ codecPc' = "encoded"
    /\ UNCHANGED <<field, decoded, consumed>>
    /\ UNCHANGED nonCodecVars

\* ar & field on a reading archive, into a default-constructed Field
Deserialize ==
    /\ codecPc = "encoded"
    /\ LET r == deserialize(buf, decoded)
       IN /\ decoded' = r.field
          /\ consumed' = r.pos
    /\ codecPc' = "decoded"
    /\ UNCHANGED <<field, buf>>
    /\ UNCHANGED nonCodecVars

NextCodec == Serialize \/ Deserialize

SpecCodec == InitArchive /\ [][NextCodec]_vars

\* C15 (as claimed): for a Field of every variant, decoding its encoding
\* gives a Field with the same variant tag and payload and consumes exactly
\* the bytes written, whose number is size(field): 1 for no-type and null,
\* 1 + width for the numeric variants, 1 + 4 + length for text and blob.
Cex_C15_RoundTrip ==
    codecPc = "decoded" =>
       /\ decoded = field
       /\ consumed = Len(buf)
       /\ Len(buf) = size(field)
       /\ size(field) =
            CASE field.type \in {"NOTYPE", "NULLTYPE"} -> 1
              [] field.type = "SMALLINT" -> 1 + 2
              [] field.type \in {"INT", "FLOAT"} -> 1 + 4
              [] field.type \in {"BIGINT", "DOUBLE"} -> 1 + 8
              [] field.type \in {"TEXT", "BLOB"} -> 1 + 4 + Len(field.value)

\* ================================== Transaction::insert from a value map
\* store::Field of a schema: name(), type(), isNotNull()
SchemaField(name, type, notNull) ==
    [name |-> name, type |-> type, notNull |-> notNull]

\* the schemas: two fixed-size fields and one variable-size field, each
\* nullable or not
Schemas ==
    {[fixed |-> <<SchemaField("a", "INT", n1), SchemaField("b", "SMALLINT", n2)>>,
      var   |-> <<SchemaField("c", "TEXT", n3)>>] :
        n1 \in BOOLEAN, n2 \in BOOLEAN, n3 \in BOOLEAN}

\* the value maps: a name is absent, or maps to one of these Fields
MapFields == {createNull, Field("INT", 7), Field("SMALLINT", 7),
              Field("TEXT", <<65>>)}
ValueMaps == UNION {[N -> MapFields] : N \in SUBSET {"a", "b", "c"}}

\* tuple[idx] = nullptr
NullValue == createNull

\* mutant: a null value is not treated as a missing one
setFieldNoNullTest(vals, fld) ==
    IF fld.name \notin DOMAIN vals
    THEN IF fld.notNull THEN [throw |-> "FieldNotSet", value |-> NullValue]
         ELSE [throw |-> "none", value |-> NullValue]
    ELSE IF fld.type # vals[fld.name].type
         THEN [throw |-> "WrongFieldType", value |-> NullValue]
         ELSE [throw |-> "none", value |-> vals[fld.name]]

\* the lambda setField of Transaction::insert: the exception it throws, or
\* the value it stores in tuple[idx]
setField(vals, fld) ==
    IF fld.name \notin DOMAIN vals \/ vals[fld.name].type = "NULLTYPE"
    THEN IF fld.notNull THEN [throw |-> "FieldNotSet", value |-> NullValue]
         ELSE [throw |-> "none", value |-> NullValue]
    ELSE IF fld.type # vals[fld.name].type
         THEN [throw |-> "WrongFieldType", value |-> NullValue]
         ELSE [throw |-> "none", value |-> vals[fld.name]]

InitInsertMap ==
    /\ mType = "READ_WRITE"
    /\ mSnapshot = <<0, 0, 0, 5>>
    /\ build = "assert"
    /\ InitTx
    /\ InitIdx
    /\ regions = {}
    /\ InitOvl
    /\ InitCodec
    /\ InitKeys
    /\ schema \in Schemas
    /\ values \in ValueMaps
    /\ insTuple = <<>>
    /\ insI = 0
    /\ insStatus = "running"
    /\ insCache = <<>>

\* one iteration of for (; i < numFixedSize; ++i)
SetFixedField ==
    /\ insStatus = "running"
    /\ insI < Len(schema.fixed)
    /\ LET r == setField(values, schema.fixed[insI + 1])
       IN IF r.throw # "none"
          THEN insStatus' = r.throw /\ UNCHANGED <<insTuple, insI>>
          ELSE /\ insTuple' = Append(insTuple, r.value)
               /\ insI' = insI + 1
               /\ UNCHANGED insStatus
    /\ UNCHANGED <<schema, values, insCache>>
    /\ UNCHANGED nonInsVars

\* one iteration of for (; i < numVarSize + numFixedSize; ++i)
SetVarField ==
    /\ insStatus = "running"
    /\ insI >= Len(schema.fixed)
    /\ insI < Len(schema.var) + Len(schema.fixed)
    /\ LET r == setField(values, schema.var[insI - Len(schema.fixed) + 1])
       IN IF r.throw # "none"
          THEN insStatus' = r.throw /\ UNCHANGED <<insTuple, insI>>
          ELSE /\ insTuple' = Append(insTuple, r.value)
               /\ insI' = insI + 1
               /\ UNCHANGED insStatus
    /\ UNCHANGED <<schema, values, insCache>>
    /\ UNCHANGED nonInsVars

\* mCache->insert(table, key, tuple)
CacheInsert ==
    /\ insStatus = "running"
    /\ insI = Len(schema.var) + Len(schema.fixed)
    /\ insCache' = Append(insCache, insTuple)
    /\ insStatus' = "inserted"
    /\ UNCHANGED <<schema, values, insTuple, insI>>
    /\ UNCHANGED nonInsVars

NextIns == SetFixedField \/ SetVarField \/ CacheInsert

SpecIns == InitInsertMap /\ [][NextIns]_vars

\* the schema fields in the order insert visits them
SchemaFields == schema.fixed \o schema.var

\* field i is not-null and absent from the map or given a null value
NotSet(i) ==
    /\ SchemaFields[i].notNull
    /\ \/ SchemaFields[i].name \notin DOMAIN values
       \/ values[SchemaFields[i].name].type = "NULLTYPE"

\* field i is given a non-null value of another type than declared
WrongType(i) ==
    /\ SchemaFields[i].name \in DOMAIN values
    /\ values[SchemaFields[i].name].type # "NULLTYPE"
    /\ values[SchemaFields[i].name].type # SchemaFields[i].type

\* the first schema field that fails a check, 0 if none does
FirstOffender ==
    LET S == {i \in 1..Len(SchemaFields) : NotSet(i) \/ WrongType(i)}
    IN IF S = {} THEN 0 ELSE CHOOSE i \in S : \A j \in S : i <= j

\* C16: insert from a map ends in FieldNotSet when the first field failing a
\* check is a not-null field that is absent or null, in WrongFieldType when
\* it is a field given a non-null value of another type; in both cases
\* nothing has reached the write buffer; the tuple reaches the write buffer
\* only when every schema field passes both checks, and then holds the
\* supplied values, null for fields absent or null.
Thm_C16_InsertMapChecks ==
    /\ insStatus = "running" => insCache = <<>>
    /\ insStatus \in {"FieldNotSet", "WrongFieldType"} =>
          /\ insCache = <<>>
          /\ FirstOffender # 0
          /\ insStatus = "FieldNotSet" <=> NotSet(FirstOffender)
          /\ insStatus = "WrongFieldType" <=> WrongType(FirstOffender)
    /\ insStatus = "inserted" =>
          /\ FirstOffender = 0
          /\ Len(insCache) = 1
          /\ Len(insCache[1]) = Len(SchemaFields)
          /\ \A i \in 1..Len(SchemaFields) :
               insCache[1][i] =
                  IF SchemaFields[i].name \in DOMAIN values
                  THEN values[SchemaFields[i].name]
                  ELSE NullValue
    /\ (insI = Len(SchemaFields) /\ insStatus = "running") => FirstOffender = 0

\* FieldNotSet raised for the variable-size field, given a null value,
\* after both fixed-size fields passed, one of them absent and nullable
Wit_C16_NullForNotNullField ==
    /\ insStatus = "FieldNotSet"
    /\ insI = 2
    /\ "c" \in DOMAIN values
    /\ values["c"].type = "NULLTYPE"
    /\ "a" \notin DOMAIN values
    /\ insCache = <<>>

\* ================================================ empty write buffer
\* C17 (as claimed): rollback of an Active transaction whose write buffer
\* is empty is accepted, issues no compensating write and brings the
\* transaction to RolledBack; every commit or rollback called afterwards is
\* rejected with a logic error and changes nothing.
Cex_C17_EmptyRollbackReachesRolledBack ==
    /\ [][(/\ pc = "idle" /\ ~mCommitted /\ ~hasChanges(mCache)
           /\ calls' = calls + 1 /\ called' = "rollback")
             => (pc' = "revertIssue" /\ trace' = trace)]_vars
    /\ [][(/\ op = "rollback" /\ ~hasChanges(mCache)
           /\ pc \in {"revertIssue", "revertWait"})
             => (trace' = trace /\ written' = written
                 /\ pc' \in {"revertWait", "rollbackCommit"})]_vars
    /\ [][(op = "rollback" /\ ~hasChanges(mCache) /\ pc = "rollbackCommit")
             => /\ txState' = "RolledBack"
                /\ mCommitted'
                /\ \A i \in 1..Len(trace') :
                     trace'[i].ev \notin {"revert", "revertAck", "revertFail"}]_vars
    /\ [][(/\ txState = "RolledBack"
           /\ calls' = calls + 1 /\ called' \in {"commit", "rollback"})
             => /\ result' = "logic_error"
                /\ txState' = "RolledBack"
                /\ trace' = trace
                /\ pc' = "idle"]_vars

\* C18 (as claimed): commit of an Active read-write transaction whose write
\* buffer has no changes sends no undo-log write, no row write and no index
\* write, and moves the transaction to Committed.
Cex_C18_EmptyCommitCommitted ==
    /\ [][(/\ pc = "idle" /\ ~mCommitted /\ mType = "READ_WRITE"
           /\ ~hasChanges(mCache)
           /\ calls' = calls + 1 /\ called' = "commit")
             => (pc' = "snapCommit" /\ trace' = trace /\ log' = log)]_vars
    /\ [][(/\ pc = "snapCommit" /\ mType = "READ_WRITE"
           /\ ~hasChanges(mCache))
             => /\ txState' = "Committed"
                /\ mCommitted'
                /\ \A i \in 1..Len(trace') :
                     trace'[i].ev \in {"snapCommit", "snapCommitFail"}]_vars

\* C18 (amended): commit of an Active read-write transaction whose write
\* buffer has no changes sends no undo-log write, no row write and no index
\* write: its only request is the snapshot commit.  Acknowledged, it moves
\* the transaction to Committed; refused, commit ends with that error, the
\* transaction is not Committed and stays Active.
Thm_C18_EmptyCommit ==
    /\ [][(/\ pc = "idle" /\ ~mCommitted /\ mType = "READ_WRITE"
           /\ ~hasChanges(mCache)
           /\ calls' = calls + 1 /\ called' = "commit")
             => (pc' = "snapCommit" /\ trace' = trace /\ log' = log)]_vars
    /\ [][(/\ pc = "snapCommit" /\ mType = "READ_WRITE"
           /\ ~hasChanges(mCache))
             => \/ /\ txState' = "Committed"
                   /\ mCommitted'
                   /\ result' = "ok"
                   /\ pc' = "idle"
                   /\ trace' = Append(trace, Ev(calls, "commit", "snapCommit", 0))
                \/ /\ txState' = "Active"
                   /\ ~mCommitted'
                   /\ result' = "conflict"
                   /\ pc' = "idle"
                   /\ trace' = Append(trace,
                                      Ev(calls, "commit", "snapCommitFail", 0))]_vars

\* a read-write transaction with nothing staged: the first commit was
\* refused by the storage tier and left it Active, the second one was
\* acknowledged and left it Committed; the storage tier saw the two
\* snapshot commits only
Wit_C18_CommittedEmpty ==
    /\ txState = "Committed"
    /\ mType = "READ_WRITE"
    /\ ~hasChanges(mCache)
    /\ trace = <<Ev(1, "commit", "snapCommitFail", 0),
                 Ev(2, "commit", "snapCommit", 0)>>
    /\ pc = "idle"

\* ====================================================== failed commit
\* the last call was a commit that ended in an error
CommitFailed ==
    /\ called = "commit"
    /\ pc = "idle"
    /\ result \in {"logic_error", "conflict"}

\* C21: a commit called on an Active transaction that ends in an error (the
\* read-only test, a row write, an index write or the snapshot commit
\* failed) leaves mCommitted unset: the transaction is still Active, the
\* rollback called next is accepted, and the destructor still rolls back.
Thm_C21_FailedCommitStaysActive ==
    /\ [][(~mCommitted /\ mCommitted') => result' = "ok"]_vars
    /\ [][(txState = "Active" /\ CommitFailed') => txState' = "Active"]_vars
    /\ [][(/\ CommitFailed /\ txState = "Active"
           /\ calls' = calls + 1 /\ called' = "rollback")
             => (pc' = "revertIssue" /\ op' = "rollback"
                 /\ result' = result)]_vars
    /\ [][(/\ CommitFailed /\ txState = "Active"
           /\ calls' = calls + 1 /\ called' = "dtor")
             => (pc' = "revertIssue" /\ op' = "rollback" /\ inDtor')]_vars

\* the snapshot commit of a commit with staged rows failed, the transaction
\* stayed Active, and the rollback called next completed
Wit_C21_RollbackAfterFailedCommit ==
    /\ txState = "RolledBack"
    /\ called = "rollback"
    /\ result = "ok"
    /\ \E i \in TraceIdx : trace[i].ev = "snapCommitFail" /\ trace[i].call = 1
    /\ \E i \in TraceIdx : trace[i].ev = "revertAck" /\ trace[i].call = 2

\* ============================== undo-log keys of several transactions
\* the snapshot versions of the transactions: 4, 5 and 2^48 + 5
KeyVersions == {<<0, 0, 0, 4>>, <<0, 0, 0, 5>>, <<1, 0, 0, 5>>}

\* the chunk number the loop is followed from: its start, or its 65536th
\* iteration
StartChunks == {0, 65535}

\* the value of key when the loop reaches chunk number c (c <= 65536):
\* that of the initialisation, or the one assigned for chunk c - 1
KeyBefore(version, c) ==
    IF c = 0 THEN InitialKey(version)
    ELSE ChunkKey(InitialKey(version), c - 1)

KeyRecord(version, c, k) == [version |-> version, chunkNum |-> c, key |-> k]

InitKeyLog ==
    /\ mType = "READ_WRITE"
    /\ mSnapshot = <<0, 0, 0, 5>>
    /\ build = "assert"
    /\ InitTx
    /\ InitIdx
    /\ regions = {}
    /\ InitOvl
    /\ InitCodec
    /\ InitIns
    /\ InitKeys

\* writeUndoLog of the transaction with snapshot version v, log.first > 1024
StartLog(v, c) ==
    /\ ~writer.active
    /\ \A r \in keyLog : r.version # v
    /\ writer' = [active |-> TRUE, version |-> v, key |-> KeyBefore(v, c),
                  chunkNum |-> c, left |-> MaxKeySteps]
    /\ UNCHANGED keyLog
    /\ UNCHANGED nonKeyVars

\* one iteration of the for loop: key = ((key >> 16) << 16) | chunkNum
KeyStep ==
    /\ writer.active
    /\ writer.left > 0
    /\ LET k == ChunkKey(writer.key, writer.chunkNum)
       IN /\ keyLog' = keyLog \cup
                          {KeyRecord(writer.version, writer.chunkNum, k)}
          /\ writer' = [writer EXCEPT !.key = k, !.chunkNum = @ + 1,
                                      !.left = @ - 1]
    /\ UNCHANGED nonKeyVars

\* sizeWritten reached log.first
EndLog ==
    /\ writer.active
    /\ writer.left < MaxKeySteps
    /\ writer' = NoWriter
    /\ UNCHANGED keyLog
    /\ UNCHANGED nonKeyVars

\* writeUndoLog of the transaction with snapshot version v, log.first <= 1024
SingleLog(v) ==
    /\ ~writer.active
    /\ \A r \in keyLog : r.version # v
    /\ keyLog' = keyLog \cup {KeyRecord(v, 0, InitialKey(v))}
    /\ UNCHANGED writer
    /\ UNCHANGED nonKeyVars

NextKeys ==
    \/ \E v \in KeyVersions, c \in StartChunks : StartLog(v, c)
    \/ KeyStep
    \/ EndLog
    \/ \E v \in KeyVersions : SingleLog(v)

SpecKeys == InitKeyLog /\ [][NextKeys]_vars

\* C22 (as claimed): chunks of distinct (snapshot version, chunk number)
\* pairs are stored under distinct keys, for every 64-bit version and every
\* number of chunks.
Cex_C22_KeysDistinct ==
    \A a \in keyLog, b \in keyLog :
       (a.version # b.version \/ a.chunkNum # b.chunkNum) => a.key # b.key

====
